---- MODULE Spec2Model ----
(***************************************************************************)
(* Format-on-type controller (FormatOnType) and the manual format action   *)
(* (FormatAction) of the editor's format contribution, as a state machine. *)
(* The editor, its model, the provider registries and the formatting       *)
(* providers are the environment: their events are actions of Next.        *)
(***************************************************************************)
EXTENDS Integers, Sequences, FiniteSets, TLC

\* ------------------------------------------------------------------ bounds
MaxLine == 2        \* line numbers are 1..MaxLine
MaxRequests == 2    \* on-type requests pending at one time
MaxChanges == 2     \* user edits of one model in one behaviour
MaxCommands == 1    \* commands executed in one behaviour

\* --------------------------------------------------------------- constants
Models == {"m1", "m2"}
NoModel == "null"
Chars == {"a", "b"}
Lines == 1..MaxLine

OnTypeId == "editor.contrib.autoFormat"
ActionId == "editor.action.format"

\* An on-type provider: autoFormatTriggerCharacters is an array or undefined.
Provider(declared, chars) == [declared |-> declared, chars |-> chars]
\* The values OnTypeFormattingEditProviderRegistry.ordered(model) takes.
OrderedValues ==
    { <<>>,
      << Provider(FALSE, <<>>) >>,
      << Provider(TRUE, <<"a">>) >>,
      << Provider(TRUE, <<"b", "b">>) >>,
      << Provider(TRUE, <<"a", "b">>), Provider(TRUE, <<"b">>) >> }

\* An edit operation as a provider returns it: the line it rewrites and its text.
Edit(line, text) == [line |-> line, text |-> text]
E1 == Edit(1, "x")
E2 == Edit(MaxLine, "y")
EditLists == { <<>>, <<E1>>, <<E2, E1>> }

\* What a formatting promise settles with: a list, nothing (null/undefined), or an error.
Settled(kind, edits) == [kind |-> kind, edits |-> edits]
NoResult == Settled("none", <<>>)
Outcomes ==
    { Settled("edits", es) : es \in EditLists } \cup { Settled("absent", <<>>), Settled("error", <<>>) }

\* Raw content change events of the attached model.
Event(type, from, to) == [type |-> type, from |-> from, to |-> to]
Events ==
    { Event("flush", 1, 1) }
      \cup { Event("lineChanged", n, n) : n \in Lines }
      \cup { Event("linesInserted", f, t) : f \in Lines, t \in Lines }
      \cup { Event("linesDeleted", f, t) : f \in Lines, t \in Lines }
RawEvents == { e \in Events : e.from <= e.to }

\* model.getOptions(): the formatting options a request is sent with.
Options(tabSize, insertSpaces) == [tabSize |-> tabSize, insertSpaces |-> insertSpaces]
NoOptions == Options(0, FALSE)
OptionValues == { Options(4, TRUE), Options(2, FALSE) }

Selection(line, empty) == [line |-> line, empty |-> empty]
Selections == { Selection(l, b) : l \in Lines, b \in BOOLEAN }

VARIABLES
    formatOnType,   \* editor.getConfiguration().contribInfo.formatOnType
    model,          \* editor.getModel(): a model or NoModel
    ordered,        \* OnTypeFormattingEditProviderRegistry.ordered(model)
    nSel,           \* editor.getSelections().length
    sel,            \* editor.getSelection(); its line is editor.getPosition().lineNumber
    version,        \* version[m]: content version id of model m
    options,        \* options[m]: model m's getOptions()
    undo,           \* the undo history: the id of each command executed, oldest first
    callOnDispose,  \* the controller's event subscriptions
    callOnModel,    \* the typing listeners: the character each is registered for
    reqs,           \* the pending on-type requests, oldest first, each with its watch
    run,            \* the pending invocation of FormatAction.run, or NoRun
    step            \* what the last operation did: its input and its calls on the editor

vars == << formatOnType, model, ordered, nSel, sel, version, options, undo, callOnDispose,
           callOnModel, reqs, run, step >>

\* ---------------------------------------------------------- FormatOnType
Subscriptions == {"config", "model", "mode", "registry"}

\* Mutant of Update: the configuration is not consulted.
UpdateWhenDisabled(enabled, m, ord) ==
    IF m = NoModel THEN <<>>
    ELSE IF ord = <<>> THEN <<>>
    ELSE IF ~ord[1].declared THEN <<>>
    ELSE ord[1].chars

\* Mutant of Update: the listeners of the previous re-evaluation are not disposed.
UpdateAccumulates(enabled, m, ord) ==
    IF ~enabled THEN callOnModel
    ELSE IF m = NoModel THEN callOnModel
    ELSE IF ord = <<>> THEN callOnModel
    ELSE IF ~ord[1].declared THEN callOnModel
    ELSE callOnModel \o ord[1].chars

\* update(), lines 42-69: the typing listeners after a re-evaluation.
Update(enabled, m, ord) ==
    IF ~enabled THEN <<>>
    ELSE IF m = NoModel THEN <<>>
    ELSE IF ord = <<>> THEN <<>>
    ELSE IF ~ord[1].declared THEN <<>>
    ELSE ord[1].chars

\* The event handlers registered in the constructor: each runs update() while subscribed.
OnEvent(name, enabled, m, ord) ==
    IF name \in callOnDispose THEN Update(enabled, m, ord) ELSE callOnModel

\* trigger(), lines 77-79, 84 and 107-111: the locals of one call (model, position,
\* canceled), its subscription (bound: unbind is not disposed), the options sent with the
\* request and its promise (settled).
\* hist is history only: an invalidating notification has been emitted since the call.
Request(m, line) ==
    [model |-> m, line |-> line, canceled |-> FALSE, bound |-> TRUE, settled |-> FALSE,
     hist |-> FALSE, options |-> options[m]]

NoRequest ==
    [model |-> NoModel, line |-> 0, canceled |-> FALSE, bound |-> FALSE, settled |-> FALSE,
     hist |-> FALSE, options |-> NoOptions]

\* Does notification e touch a line at or before line L (or replace the content)?
Invalidates(e, L) ==
    \/ e.type = "flush"
    \/ e.type = "lineChanged" /\ e.from <= L
    \/ e.type = "linesInserted" /\ e.from <= L
    \/ e.type = "linesDeleted" /\ e.to <= L

\* Mutant of Listener: the listener stays subscribed once it has canceled.
ListenerKeepsListening(req, e) ==
    LET canceled ==
            IF e.type = "flush" THEN TRUE
            ELSE IF e.type = "lineChanged" THEN e.from <= req.line
            ELSE IF e.type = "linesInserted" THEN e.from <= req.line
            ELSE IF e.type = "linesDeleted" THEN e.to <= req.line
            ELSE req.canceled
    IN  [req EXCEPT !.canceled = canceled]

\* Mutant of Listener: only a change strictly above the anchor line invalidates.
ListenerStrictlyAbove(req, e) ==
    LET canceled ==
            IF e.type = "flush" THEN TRUE
            ELSE IF e.type = "lineChanged" THEN e.from < req.line
            ELSE IF e.type = "linesInserted" THEN e.from < req.line
            ELSE IF e.type = "linesDeleted" THEN e.to < req.line
            ELSE req.canceled
    IN  [req EXCEPT !.canceled = canceled, !.bound = IF canceled THEN FALSE ELSE req.bound]

\* The onDidChangeModelRawContent listener of one request, lines 84-105.
Listener(req, e) ==
    LET canceled ==
            IF e.type = "flush" THEN TRUE
            ELSE IF e.type = "lineChanged" THEN e.from <= req.line
            ELSE IF e.type = "linesInserted" THEN e.from <= req.line
            ELSE IF e.type = "linesDeleted" THEN e.to <= req.line
            ELSE req.canceled
    IN  [req EXCEPT !.canceled = canceled, !.bound = IF canceled THEN FALSE ELSE req.bound]

\* Mutant of Emit: one staleness flag shared by the pending requests.
EmitShared(rs, e) ==
    LET hit == \E i \in 1..Len(rs) : rs[i].bound /\ Invalidates(e, rs[i].line)
    IN  [i \in 1..Len(rs) |->
            LET seen == [rs[i] EXCEPT !.hist = @ \/ (~rs[i].settled /\ Invalidates(e, rs[i].line))]
            IN  IF rs[i].bound /\ hit THEN [seen EXCEPT !.canceled = TRUE, !.bound = FALSE]
                ELSE seen]

\* The editor emits e: every subscribed listener runs.
Emit(rs, e) ==
    [i \in 1..Len(rs) |->
        LET seen == [rs[i] EXCEPT !.hist = @ \/ (~rs[i].settled /\ Invalidates(e, rs[i].line))]
        IN  IF rs[i].bound THEN Listener(seen, e) ELSE seen]

RECURSIVE EmitAll(_, _)
EmitAll(rs, es) == IF es = <<>> THEN rs ELSE EmitAll(Emit(rs, Head(es)), Tail(es))

\* Mutant of Trigger: no test of the number of selections.
TriggerAnyCarets(rs, ch) == Append(rs, Request(model, sel.line))

\* Mutant of Trigger: a single "current" watch, which a new request takes over.
TriggerSuperseding(rs, ch) ==
    IF nSel > 1 THEN rs
    ELSE Append([i \in 1..Len(rs) |-> [rs[i] EXCEPT !.bound = FALSE]], Request(model, sel.line))

\* trigger(ch), lines 71-112: the guard, the capture, the watch and the request.
Trigger(rs, ch) ==
    IF nSel > 1 THEN rs ELSE Append(rs, Request(model, sel.line))

\* The editor calls every typing listener registered for ch, in registration order.
RECURSIVE InvokeTypingListeners(_, _, _)
InvokeTypingListeners(ls, ch, rs) ==
    IF ls = <<>> THEN rs
    ELSE InvokeTypingListeners(Tail(ls), ch, IF Head(ls) = ch THEN Trigger(rs, ch) ELSE rs)

\* ------------------------------------------------------- command execution
\* The state a handler may change, and its calls on the editor, as a record the
\* handlers transform: commands executed, error thrown, focus() calls, view-state calls.
Current ==
    [reqs |-> reqs, run |-> run, undo |-> undo, version |-> version, sel |-> sel,
     nSel |-> nSel, commands |-> <<>>, thrown |-> FALSE, focus |-> 0, views |-> <<>>]

Command(id, edits, s) == [id |-> id, edits |-> edits, sel |-> s]

\* The notifications the model emits while a command's edits are applied.
CommandEvents(edits) == [i \in 1..Len(edits) |-> Event("lineChanged", edits[i].line, edits[i].line)]

\* editor.executeCommand(id, new EditOperationsCommand(edits, s)): one command, one
\* undo entry; the cursor state becomes the command's tracked selection.
\* Without a model the editor has no cursor and the call does nothing.
ExecuteCommand(st, id, edits, s) ==
    LET called == [st EXCEPT !.commands = Append(@, Command(id, edits, s))]
    IN  IF model = NoModel THEN called
        ELSE [called EXCEPT !.reqs = EmitAll(@, CommandEvents(edits)),
                            !.undo = Append(@, id),
                            !.version[model] = IF edits = <<>> THEN @ ELSE @ + 1,
                            !.sel = s,
                            !.nSel = 1]

\* arrays.isFalsyOrEmpty(edits)
IsFalsyOrEmpty(out) == out.kind = "absent" \/ out.edits = <<>>

\* Mutant of Applies: a result computed with options the model no longer has is dropped.
AppliesIfOptionsCurrent(req, out) ==
    ~(req.canceled \/ IsFalsyOrEmpty(out)) /\ req.options = options[model]

\* Mutant of Applies: the canceled flag is not consulted.
AppliesStale(req, out) == ~IsFalsyOrEmpty(out)

\* The test of line 116, negated: the edits are applied.
Applies(req, out) == ~(req.canceled \/ IsFalsyOrEmpty(out))

\* Mutant of OnEdits: only the first edit of the list reaches the command.
OnEditsFirstOnly(st, r, out) ==
    LET unbound == [st EXCEPT !.reqs[r].bound = FALSE]
    IN  IF Applies(unbound.reqs[r], out)
        THEN ExecuteCommand(unbound, OnTypeId, << Head(out.edits) >>, st.sel)
        ELSE unbound

\* Mutant of OnEdits: the command gets the caret captured when the character was typed.
OnEditsAtCapturedPosition(st, r, out) ==
    LET unbound == [st EXCEPT !.reqs[r].bound = FALSE]
    IN  IF Applies(unbound.reqs[r], out)
        THEN ExecuteCommand(unbound, OnTypeId, out.edits, Selection(st.reqs[r].line, TRUE))
        ELSE unbound

\* Mutant of OnEdits: the watch is released after the test, so only when edits are applied.
OnEditsUnbindsLate(st, r, out) ==
    IF Applies(st.reqs[r], out)
    THEN ExecuteCommand([st EXCEPT !.reqs[r].bound = FALSE], OnTypeId, out.edits, st.sel)
    ELSE st

\* The success handler of the request, lines 112-120.
OnEdits(st, r, out) ==
    LET unbound == [st EXCEPT !.reqs[r].bound = FALSE]
    IN  IF Applies(unbound.reqs[r], out)
        THEN ExecuteCommand(unbound, OnTypeId, out.edits, st.sel)
        ELSE unbound

\* Mutant of OnError: the failure is swallowed.
OnErrorSwallowed(st, r, out) ==
    [st EXCEPT !.reqs[r].bound = FALSE]

\* The error handler of the request, lines 122-125: unbind, then throw err.
OnError(st, r, out) ==
    [st EXCEPT !.reqs[r].bound = FALSE, !.thrown = TRUE]

\* A call of trigger whose promise has settled and whose subscription is disposed is
\* referenced by nothing: its locals are gone.
Release(rs) == SelectSeq(rs, LAMBDA q : ~q.settled \/ q.bound)

\* The promise of request r settles: its handler runs.
Settle(st, r, out) ==
    LET handled == IF out.kind = "error"
                   THEN OnError([st EXCEPT !.reqs[r].settled = TRUE], r, out)
                   ELSE OnEdits([st EXCEPT !.reqs[r].settled = TRUE], r, out)
    IN  [handled EXCEPT !.reqs = Release(@)]

\* ------------------------------------------------------------ FormatAction
NoState == [model |-> NoModel, version |-> 0, line |-> 0]

\* editor.captureState(Value, Position): the model, its content version, the position.
CaptureState == [model |-> model, version |-> version[model], line |-> sel.line]

\* state.validate(editor), evaluated in st.
Validate(state, st) ==
    /\ model # NoModel
    /\ state.model = model
    /\ state.version = st.version[model]
    /\ state.line = st.sel.line

\* Mutant of Run: whole-document formatting whatever the selection.
RunDocumentOnly(promise) ==
    [calls |-> << "document" >>,
     promise |-> promise,
     sel |-> sel,
     options |-> options[model],
     state |-> IF promise THEN CaptureState ELSE NoState]

\* run(), lines 173-194: one invocation up to the point where it returns its promise:
\* the request function called, what it returned, the selection read, the options sent
\* and the state captured.
Run(promise) ==
    [calls |-> IF sel.empty THEN << "document" >> ELSE << "range" >>,
     promise |-> promise,
     sel |-> sel,
     options |-> options[model],
     state |-> IF promise THEN CaptureState ELSE NoState]

NoRun ==
    [calls |-> <<>>, promise |-> FALSE, sel |-> Selection(0, TRUE), options |-> NoOptions,
     state |-> NoState]

View(op, s, n, depth) == [op |-> op, sel |-> s, nSel |-> n, depth |-> depth]

\* editor.saveViewState()
SaveViewState(st) ==
    [st EXCEPT !.views = Append(@, View("save", st.sel, st.nSel, Len(st.undo)))]

\* editor.restoreViewState(state)
RestoreViewState(st, state) ==
    [st EXCEPT !.sel = state.sel, !.nSel = state.nSel,
               !.views = Append(@, View("restore", state.sel, state.nSel, Len(st.undo)))]

\* Mutant of Apply: the view state is restored before the command is executed.
ApplyRestoresFirst(st, editorSelection, value) ==
    IF editorSelection.empty
    THEN LET saved == SaveViewState(st)
             state == saved.views[Len(saved.views)]
         IN  ExecuteCommand(RestoreViewState(saved, state), ActionId, value, editorSelection)
    ELSE ExecuteCommand(st, ActionId, value, editorSelection)

\* apply(editor, editorSelection, value), lines 213-225.
Apply(st, editorSelection, value) ==
    IF editorSelection.empty
    THEN LET saved == SaveViewState(st)
             state == saved.views[Len(saved.views)]
         IN  RestoreViewState(ExecuteCommand(saved, ActionId, value, editorSelection), state)
    ELSE ExecuteCommand(st, ActionId, value, editorSelection)

\* Mutant of OnResult: the captured state is not validated.
OnResultUnvalidated(st, out) ==
    LET rest == [st EXCEPT !.run = NoRun]
    IN  IF out.kind = "absent" \/ Len(out.edits) = 0 THEN rest
        ELSE [Apply(rest, st.run.sel, out.edits) EXCEPT !.focus = @ + 1]

\* The continuation of run(), lines 197-210; the invocation is then over.
OnResult(st, out) ==
    LET rest == [st EXCEPT !.run = NoRun]
    IN  IF ~Validate(st.run.state, st) THEN rest
        ELSE IF out.kind = "absent" \/ Len(out.edits) = 0 THEN rest
        ELSE [Apply(rest, st.run.sel, out.edits) EXCEPT !.focus = @ + 1]

\* run() installs no error handler: the failure goes to the caller of run().
OnFailure(st, out) ==
    [st EXCEPT !.run = NoRun, !.thrown = TRUE]

\* ----------------------------------------------------------------- actions
Carets == {1, 2}

\* The record of an operation that called nothing on the editor. Its history-only
\* fields: late (the notification spared a request an earlier one had invalidated),
\* stale (the captured state differed from the editor's when the result arrived),
\* pushed, changed and moved (the undo entries the operation pushed, whether it changed
\* the content, the selections).
Step(name) ==
    [name |-> name, ch |-> "", late |-> FALSE, req |-> NoRequest, calls |-> <<>>,
     promise |-> FALSE, stale |-> FALSE, out |-> NoResult, value |-> <<>>, issued |-> 0,
     commands |-> <<>>, thrown |-> FALSE, focus |-> 0, views |-> <<>>, pushed |-> 0,
     changed |-> FALSE, moved |-> FALSE]

\* The state a handler leaves, and the record of its calls.
Commit(st, done) ==
    /\ Len(st.undo) <= MaxCommands
    /\ reqs' = st.reqs
    /\ run' = st.run
    /\ undo' = st.undo
    /\ version' = st.version
    /\ sel' = st.sel
    /\ nSel' = st.nSel
    /\ step' = [done EXCEPT !.commands = st.commands, !.thrown = st.thrown,
                            !.focus = st.focus, !.views = st.views,
                            !.pushed = Len(st.undo) - Len(undo),
                            !.changed = (st.version # version),
                            !.moved = (st.sel # sel \/ st.nSel # nSel)]

\* Mutant of Init: the constructor ends with a call of update().
InitWithUpdate ==
    /\ formatOnType \in BOOLEAN
    /\ model \in {"m1", NoModel}
    /\ ordered \in OrderedValues
    /\ nSel = 1
    /\ sel = Selection(1, TRUE)
    /\ version = [m \in Models |-> 1]
    /\ options = [m \in Models |-> Options(4, TRUE)]
    /\ undo = <<>>
    /\ callOnDispose = Subscriptions
    /\ callOnModel = Update(formatOnType, model, ordered)
    /\ reqs = <<>>
    /\ run = NoRun
    /\ step = Step("new")

\* The constructor, lines 31-40: four subscriptions, no typing listener, no update().
Init ==
    /\ formatOnType \in BOOLEAN
    /\ model \in {"m1", NoModel}
    /\ ordered \in OrderedValues
    /\ nSel = 1
    /\ sel = Selection(1, TRUE)
    /\ version = [m \in Models |-> 1]
    /\ options = [m \in Models |-> Options(4, TRUE)]
    /\ undo = <<>>
    /\ callOnDispose = Subscriptions
    /\ callOnModel = <<>>
    /\ reqs = <<>>
    /\ run = NoRun
    /\ step = Step("new")

\* editor.onDidChangeConfiguration fires.
ConfigChange(b) ==
    /\ formatOnType' = b
    /\ callOnModel' = OnEvent("config", b, model, ordered)
    /\ step' = Step("config")
    /\ UNCHANGED << options, model, ordered, nSel, sel, version, undo, callOnDispose, reqs,
                    run >>

\* editor.setModel(m): a new cursor on the new model, then onDidChangeModel fires.
SetModel(m) ==
    /\ m # model
    /\ model' = m
    /\ sel' = Selection(1, TRUE)
    /\ nSel' = 1
    /\ callOnModel' = OnEvent("model", formatOnType, m, ordered)
    /\ step' = Step("model")
    /\ UNCHANGED << options, formatOnType, ordered, version, undo, callOnDispose, reqs, run >>

\* The model's mode changes, and with it the providers that match: onDidChangeModelMode fires.
ModelModeChange(ord) ==
    /\ model # NoModel
    /\ ordered' = ord
    /\ callOnModel' = OnEvent("mode", formatOnType, model, ord)
    /\ step' = Step("mode")
    /\ UNCHANGED << options, formatOnType, model, nSel, sel, version, undo, callOnDispose,
                    reqs, run >>

\* A provider is registered or unregistered: the registry's onDidChange fires.
RegistryChange(ord) ==
    /\ ordered' = ord
    /\ callOnModel' = OnEvent("registry", formatOnType, model, ord)
    /\ step' = Step("registry")
    /\ UNCHANGED << options, formatOnType, model, nSel, sel, version, undo, callOnDispose,
                    reqs, run >>

\* dispose(), lines 132-135.
Dispose ==
    /\ callOnDispose # {}
    /\ callOnDispose' = {}
    /\ callOnModel' = <<>>
    /\ step' = Step("dispose")
    /\ UNCHANGED << options, formatOnType, model, ordered, nSel, sel, version, undo, reqs,
                    run >>

\* The user types ch: the editor calls the typing listeners registered for it.
TypeChar(ch) ==
    /\ model # NoModel
    /\ LET rs == InvokeTypingListeners(callOnModel, ch, reqs)
       IN  /\ Len(rs) <= MaxRequests
           /\ reqs' = rs
           /\ step' = [Step("type") EXCEPT !.ch = ch, !.issued = Len(rs) - Len(reqs)]
    /\ UNCHANGED << options, formatOnType, model, ordered, nSel, sel, version, undo,
                    callOnDispose,
                    callOnModel, run >>

\* The promise of getOnTypeFormattingEdits settles for pending request r.
ResolveOnType(r, out) ==
    /\ r \in 1..Len(reqs)
    /\ ~reqs[r].settled
    /\ Commit(Settle(Current, r, out), [Step("resolve") EXCEPT !.req = reqs[r], !.out = out])
    /\ UNCHANGED << options, formatOnType, model, ordered, callOnDispose, callOnModel >>

\* The user (or another process) edits the attached model: it emits e.
UserEdit(e) ==
    /\ model # NoModel
    /\ version[model] <= MaxChanges
    /\ version' = [version EXCEPT ![model] = @ + 1]
    /\ reqs' = Emit(reqs, e)
    /\ step' = [Step("edit") EXCEPT !.changed = TRUE,
                                    !.late = \E i \in 1..Len(reqs) :
                                                reqs[i].hist /\ ~Invalidates(e, reqs[i].line)]
    /\ UNCHANGED << options, formatOnType, model, ordered, nSel, sel, undo, callOnDispose,
                    callOnModel, run >>

\* The user moves the caret, selects, or adds a caret.
MoveCursor(s, n) ==
    /\ model # NoModel
    /\ << s, n >> # << sel, nSel >>
    /\ sel' = s
    /\ nSel' = n
    /\ step' = Step("cursor")
    /\ UNCHANGED << options, formatOnType, model, ordered, version, undo, callOnDispose,
                    callOnModel, reqs, run >>

\* The options of the attached model change (model.updateOptions, or the indentation
\* settings): the content, its version and the cursor are left alone.
UpdateOptions(o) ==
    /\ model # NoModel
    /\ options[model] # o
    /\ options' = [options EXCEPT ![model] = o]
    /\ step' = Step("options")
    /\ UNCHANGED << formatOnType, model, ordered, nSel, sel, version, undo, callOnDispose,
                    callOnModel, reqs, run >>

\* FormatAction.run is invoked while no invocation is pending; the request function
\* returns a promise or nothing.
RunAction(promise) ==
    /\ model # NoModel
    /\ run = NoRun
    /\ run' = IF promise THEN Run(promise) ELSE run
    /\ step' = [Step("run") EXCEPT !.calls = Run(promise).calls, !.promise = promise]
    /\ UNCHANGED << options, formatOnType, model, ordered, nSel, sel, version, undo,
                    callOnDispose,
                    callOnModel, reqs >>

\* The formatting promise of the pending invocation settles.
ResolveRun(out) ==
    /\ run # NoRun
    /\ Commit(IF out.kind = "error" THEN OnFailure(Current, out) ELSE OnResult(Current, out),
              [Step("result") EXCEPT !.out = out,
                                     !.stale = \/ model = NoModel
                                               \/ run.state.model # model
                                               \/ run.state.version # version[model]
                                               \/ run.state.line # sel.line])
    /\ UNCHANGED << options, formatOnType, model, ordered, callOnDispose, callOnModel >>

\* FormatAction.apply is called directly (it is public) with a selection and a list.
ApplyDirect(s, value) ==
    /\ model # NoModel
    /\ Commit(Apply(Current, s, value), [Step("apply") EXCEPT !.value = value])
    /\ UNCHANGED << options, formatOnType, model, ordered, callOnDispose, callOnModel >>

\* ---------------------------------------------------------- specifications
Configure ==
    \/ \E b \in BOOLEAN : ConfigChange(b)
    \/ \E m \in Models \cup {NoModel} : SetModel(m)
    \/ \E ord \in OrderedValues : ModelModeChange(ord)
    \/ \E ord \in OrderedValues : RegistryChange(ord)

OnType ==
    \/ \E ch \in Chars : TypeChar(ch)
    \/ \E r \in 1..MaxRequests, out \in Outcomes : ResolveOnType(r, out)

Manual ==
    \/ \E promise \in BOOLEAN : RunAction(promise)
    \/ \E out \in Outcomes : ResolveRun(out)
    \/ \E s \in {Selection(1, TRUE), Selection(1, FALSE)}, value \in EditLists : ApplyDirect(s, value)

\* The user edits, moves the caret or adds carets (no range is selected).
User ==
    \/ \E e \in RawEvents : UserEdit(e)
    \/ \E l \in Lines, n \in Carets : MoveCursor(Selection(l, TRUE), n)

\* The on-type flow of one editor whose model has an on-type provider: the requests,
\* their watches and their results, with the user editing and moving the caret.
InitOnType == Init /\ model = "m1" /\ ordered = << Provider(TRUE, <<"a", "b">>), Provider(TRUE, <<"b">>) >>

Next ==
    \/ \E b \in BOOLEAN : ConfigChange(b)
    \/ OnType
    \/ User

Spec == InitOnType /\ [][Next]_vars

\* The controller's life: every re-evaluation event, typing, results and disposal.
NextUpdate ==
    \/ Configure
    \/ Dispose
    \/ OnType

SpecUpdate == Init /\ [][NextUpdate]_vars

\* The manual flow: FormatAction.run and apply, with the user editing, moving the
\* caret and switching the model.
InitAction == Init /\ ~formatOnType /\ model = "m1" /\ ordered = <<>>

NextAction ==
    \/ Manual
    \/ \E e \in {Event("lineChanged", 1, 1)} : UserEdit(e)
    \/ \E s \in Selections : MoveCursor(s, 1)
    \/ \E m \in Models \cup {NoModel} : SetModel(m)

SpecAction == InitAction /\ [][NextAction]_vars

\* Both flows on one editor: every way an edit list reaches apply/executeCommand.
InitApply == InitOnType /\ formatOnType

NextApply ==
    \/ \E b \in {TRUE} : ConfigChange(b)
    \/ OnType
    \/ Manual
    \/ \E e \in {Event("lineChanged", 1, 1)} : UserEdit(e)
    \/ \E s \in {Selection(1, TRUE), Selection(1, FALSE)} : MoveCursor(s, 1)

SpecApply == InitApply /\ [][NextApply]_vars

\* Both flows while the configuration and the model's options change under them; every
\* result carries edits, so that only staleness decides whether it is applied.
WithEdits == { out \in Outcomes : out.kind = "edits" /\ out.edits # <<>> }

NextOptions ==
    \/ \E b \in BOOLEAN : ConfigChange(b)
    \/ \E o \in OptionValues : UpdateOptions(o)
    \/ \E ch \in Chars : TypeChar(ch)
    \/ \E r \in 1..MaxRequests, out \in WithEdits : ResolveOnType(r, out)
    \/ \E promise \in BOOLEAN : RunAction(promise)
    \/ \E out \in WithEdits : ResolveRun(out)
    \/ \E e \in {Event("lineChanged", 1, 1)} : UserEdit(e)

SpecOptions == InitApply /\ [][NextOptions]_vars


\* ------------------------------------------------------------------ claims
Range(q) == { q[i] : i \in 1..Len(q) }

\* The list a promise settled with is empty or absent.
EmptyOrAbsent(out) == out.kind = "absent" \/ (out.kind = "edits" /\ out.edits = <<>>)

\* The operation executed no command and left the document and the undo history alone.
NothingApplied == step.commands = <<>> /\ step.pushed = 0 /\ ~step.changed

\* C1: when an on-type request resolves, its edits are applied only if its watch was
\* not invalidated and the list is non-empty; otherwise (invalidated, empty, absent) no
\* command is executed and the document stays what the intervening edits made it; a
\* request that saw an invalidating notification (e.g. a line inserted at or above the
\* anchor) has its arriving edits discarded.
OnTypeAppliedOnlyIfFresh ==
    step.name = "resolve" /\ step.out.kind # "error" =>
        LET fresh == ~step.req.canceled /\ ~EmptyOrAbsent(step.out)
        IN  /\ step.commands # <<>> => fresh
            /\ ~fresh => NothingApplied
            /\ step.req.hist => NothingApplied

OnTypeDiscardedWitness ==
    /\ step.name = "resolve"
    /\ step.req.hist
    /\ step.out.kind = "edits" /\ step.out.edits # <<>>
    /\ step.commands = <<>>

\* C2: from the start of a watch to the resolution of its request, the watch's flag is
\* true iff an invalidating notification (full replace, line change at or above the
\* anchor, lines inserted from at or above it, lines deleted up to at or above it) has
\* been emitted; a later notification below the anchor never resets it.
WatchFlagIsLatch ==
    /\ \A i \in 1..Len(reqs) : reqs[i].canceled = reqs[i].hist
    /\ step.name = "resolve" => (step.req.canceled = step.req.hist)

WatchSparedAfterInvalidationWitness ==
    /\ step.name = "edit"
    /\ step.late
    /\ \E i \in 1..Len(reqs) : reqs[i].canceled /\ reqs[i].hist

\* C3: in FormatAction.run, a result that arrives when the model, its content version or
\* the cursor position differs from the captured state is abandoned: no command, no
\* error, no view state saved or restored, no focus call, the selection left as it was.
StaleRunAbandoned ==
    step.name = "result" /\ step.out.kind # "error" /\ step.stale =>
        /\ NothingApplied
        /\ ~step.thrown
        /\ step.views = <<>>
        /\ step.focus = 0
        /\ ~step.moved

StaleRunWitness ==
    /\ step.name = "result"
    /\ step.stale
    /\ step.out.kind = "edits" /\ step.out.edits # <<>>
    /\ step.commands = <<>>

\* C4: every application of a non-empty list, on-type or manual, executes exactly one
\* command that carries the whole list in the provider's order and pushes exactly one
\* undo entry; no operation executes a command carrying part of a list.
OneCommandPerApply ==
    LET whole(edits, id) ==
            /\ Len(step.commands) = 1
            /\ step.commands[1].edits = edits
            /\ step.commands[1].id = id
            /\ step.pushed = 1
    IN  /\ Len(step.commands) <= 1
        /\ step.name = "resolve" /\ step.out.kind = "edits" /\ step.out.edits # <<>>
             => (~step.req.canceled => whole(step.out.edits, OnTypeId))
                  /\ (step.commands # <<>> => whole(step.out.edits, OnTypeId))
        /\ step.name = "result" /\ step.out.kind = "edits" /\ step.out.edits # <<>>
             => (~step.stale => whole(step.out.edits, ActionId))
                  /\ (step.commands # <<>> => whole(step.out.edits, ActionId))
        /\ step.name = "apply" /\ step.value # <<>> => whole(step.value, ActionId)

ManyEditsOneCommandWitness ==
    /\ step.name = "resolve"
    /\ Len(step.out.edits) > 1
    /\ Len(step.commands) = 1
    /\ step.commands[1].edits = step.out.edits

\* C5: FormatAction.run calls exactly one request function per invocation, the
\* whole-document one when the selection read at invocation is empty and the range one
\* otherwise; when the function returns no promise, run is over at once: no state is
\* captured, no command executed, no view state touched, no focus call.
RunIssuesOneRequest ==
    step.name = "run" =>
        /\ step.calls = IF sel.empty THEN << "document" >> ELSE << "range" >>
        /\ step.promise => (run # NoRun /\ run.calls = step.calls /\ run.sel = sel)
        /\ ~step.promise =>
              /\ run = NoRun
              /\ NothingApplied
              /\ step.views = <<>>
              /\ step.focus = 0
              /\ ~step.moved

RunWithoutProviderWitness ==
    /\ step.name = "run"
    /\ ~step.promise
    /\ ~sel.empty
    /\ step.calls = << "range" >>

\* C6: a registered trigger character typed while the editor has more than one selection
\* issues no request, installs no watch and applies no edit.
MultiCaretTypingIssuesNothing ==
    step.name = "type" /\ nSel > 1 => (step.issued = 0 /\ NothingApplied)

MultiCaretTypingWitness ==
    /\ step.name = "type"
    /\ nSel > 1
    /\ step.ch \in Range(callOnModel)
    /\ step.issued = 0

\* C7: once a re-evaluation has seen format-on-type disabled, no typing listener is
\* registered, and as long as it stays disabled a typed trigger character issues no request.
DisabledHasNoListeners ==
    ~formatOnType =>
        /\ callOnModel = <<>>
        /\ step.name = "type" => step.issued = 0

\* A request is pending, so listeners were registered while the feature was enabled;
\* since then it has been disabled, and a character was typed.
TypedAfterDisableWitness ==
    /\ ~formatOnType
    /\ callOnDispose # {}
    /\ reqs # <<>>
    /\ step.name = "type"
    /\ step.issued = 0

\* C8: when an on-type request fails, its watch is released, nothing is applied and the
\* failure is re-raised.
FailureReleasedAndRethrown ==
    step.name = "resolve" /\ step.out.kind = "error" =>
        /\ step.thrown
        /\ NothingApplied
        /\ \A i \in 1..Len(reqs) : ~reqs[i].settled

FailureWitness ==
    /\ step.name = "resolve"
    /\ step.out.kind = "error"
    /\ step.req.bound
    /\ step.thrown

\* C9: an empty or absent edit list leads to no command being executed, in the on-type
\* flow, in FormatAction.run and in FormatAction.apply.
EmptyListExecutesNothing ==
    /\ step.name = "resolve" /\ EmptyOrAbsent(step.out) => NothingApplied
    /\ step.name = "result" /\ EmptyOrAbsent(step.out) => NothingApplied
    /\ step.name = "apply" /\ step.value = <<>> => NothingApplied

\* C10: after dispose() the typing listeners and every active watch are released, and a
\* request that was pending applies no edit when it resolves.
DisposeReleasesEverything ==
    callOnDispose = {} =>
        /\ callOnModel = <<>>
        /\ \A i \in 1..Len(reqs) : ~reqs[i].bound
        /\ step.name = "resolve" => step.commands = <<>>

\* The pending requests whose watch is subscribed / whose flag is still false.
Watching == { i \in 1..Len(reqs) : reqs[i].bound }
Live == { i \in 1..Len(reqs) : ~reqs[i].settled /\ ~reqs[i].canceled }

RequestsValidatedIndependently ==
    [][/\ step'.name = "edit" =>
             /\ Len(reqs') = Len(reqs)
             /\ \E e \in RawEvents : \A i \in 1..Len(reqs) :
                   /\ reqs'[i].hist = (reqs[i].hist \/ Invalidates(e, reqs[i].line))
                   /\ reqs'[i].canceled = (reqs[i].canceled \/ Invalidates(e, reqs[i].line))
                   /\ reqs'[i].line = reqs[i].line
       /\ step'.name = "resolve" /\ step'.out.kind # "error" =>
             \E r \in 1..Len(reqs) :
                   /\ step'.req = reqs[r]
                   /\ (step'.commands # <<>>) = (~reqs[r].canceled /\ ~EmptyOrAbsent(step'.out))
       /\ step'.name = "type" /\ nSel = 1 /\ step'.ch \in Range(callOnModel) =>
             step'.issued >= 1 /\ Len(reqs') > Len(reqs)]_vars

\* Two requests are pending; the last edit invalidated one and spared the other.
OneInvalidatedOneSparedWitness ==
    /\ step.name = "edit"
    /\ \E i, j \in 1..Len(reqs) :
          /\ reqs[i].canceled /\ ~reqs[i].bound
          /\ ~reqs[j].canceled /\ reqs[j].bound /\ ~reqs[j].hist


\* C13: FormatAction.apply (called directly or from run with the selection read at
\* invocation) saves the view state before the command and restores it after the command
\* iff the selection passed is empty: then the selections end as they were saved; for a
\* non-empty selection no view state is saved or restored and the command's selection
\* stands. The command is executed between the save and the restore.
ViewStateAroundCommand ==
    step.name \in {"apply", "result"} /\ step.commands # <<>> =>
        LET c == step.commands[1]
        IN  IF c.sel.empty
            THEN /\ Len(step.views) = 2
                 /\ step.views[1].op = "save"
                 /\ step.views[2].op = "restore"
                 /\ step.views[2].depth = step.views[1].depth + 1
                 /\ step.views[2].sel = step.views[1].sel
                 /\ step.views[2].nSel = step.views[1].nSel
                 /\ sel = step.views[1].sel
                 /\ nSel = step.views[1].nSel
            ELSE /\ step.views = <<>>
                 /\ sel = c.sel
                 /\ nSel = 1

\* run applied a result for an empty selection: the view state was saved and restored.
ViewStateRestoredWitness ==
    /\ step.name = "result"
    /\ step.commands # <<>>
    /\ step.commands[1].sel.empty
    /\ Len(step.views) = 2
    /\ step.views[2].op = "restore"
    /\ step.focus = 1


\* C14: a change-tracking subscription is active only for a request that is pending and
\* has seen no invalidating notification: it is released by the notification that
\* invalidates the request, and otherwise in the step in which the request resolves
\* (with edits, with none, or with a failure), so no resolved request keeps one.
WatchOnlyWhilePendingAndFresh ==
    /\ \A i \in 1..Len(reqs) :
          /\ ~reqs[i].settled
          /\ reqs[i].bound => (~reqs[i].canceled /\ ~reqs[i].hist)
          /\ reqs[i].hist => ~reqs[i].bound
    /\ step.name = "resolve" => step.req.bound = (~step.req.canceled /\ ~step.req.hist)

\* A request whose watch was still active resolved with no edits while another request,
\* whose watch stays active, is pending.
WatchReleasedOnEmptyResultWitness ==
    /\ step.name = "resolve"
    /\ step.req.bound
    /\ EmptyOrAbsent(step.out)
    /\ \E i \in 1..Len(reqs) : reqs[i].bound


\* The number of typing listeners registered for ch, and of entries ch in a declared list.
ListenersFor(ch) == Cardinality({ i \in 1..Len(callOnModel) : callOnModel[i] = ch })
Declares(chars, ch) == Cardinality({ i \in 1..Len(chars) : chars[i] = ch })

\* C15: after every re-evaluation (configuration, model, model-mode or registry event of
\* a controller that is not disposed) the typing listeners are one per trigger character
\* entry declared by the first-ordered provider of the current model when format-on-type
\* is enabled, a model is attached and that provider declares trigger characters, and
\* none otherwise: listeners of earlier re-evaluations do not accumulate.
ListenersMatchFirstProvider ==
    step.name \in {"config", "model", "mode", "registry"} /\ callOnDispose # {} =>
        LET idle == /\ formatOnType
                    /\ model # NoModel
                    /\ ordered # <<>>
                    /\ ordered[1].declared
        IN  /\ \A ch \in Chars :
                  ListenersFor(ch) = IF idle THEN Declares(ordered[1].chars, ch) ELSE 0
            /\ Len(callOnModel) = IF idle THEN Len(ordered[1].chars) ELSE 0

\* A request is pending, so listeners were registered by an earlier re-evaluation; the
\* last re-evaluation registered the one listener of another provider.
ListenersReplacedWitness ==
    /\ step.name = "registry"
    /\ callOnDispose # {}
    /\ reqs # <<>>
    /\ callOnModel = << "a" >>


\* C16: when an on-type result is applied, the command is built with the editor's
\* selection as it is when the result arrives, not with the position captured when the
\* character was typed: a caret moved while the request was pending is the one passed.
CommandGetsSelectionAtApply ==
    [][step'.name = "resolve" /\ step'.commands # <<>> =>
          /\ step'.commands[1].sel = sel
          /\ step'.commands[1].id = OnTypeId]_vars

\* The caret left the line of the request before its result was applied.
CaretMovedBeforeApplyWitness ==
    /\ step.name = "resolve"
    /\ step.commands # <<>>
    /\ step.commands[1].sel.line # step.req.line


\* C17: the options sent with a request (on-type and manual) are the model's when the
\* request is issued; a later change of the configuration or of the model's options
\* leaves every pending request as it is, and the result is still applied unless a
\* staleness condition holds (on-type: an invalidating notification; manual: the model,
\* its version or the position changed).
OptionsSnapshotted ==
    [][/\ step'.name \in {"options", "config"} => (reqs' = reqs /\ run' = run)
       /\ step'.name = "type" =>
             \A i \in (Len(reqs) + 1)..Len(reqs') : reqs'[i].options = options[model]
       /\ step'.name = "run" /\ step'.promise => run'.options = options[model]
       /\ step'.name = "resolve" /\ step'.out.kind = "edits" /\ step'.out.edits # <<>>
             /\ ~step'.req.hist
             => step'.commands = << Command(OnTypeId, step'.out.edits, sel) >>
       /\ step'.name = "result" /\ step'.out.kind = "edits" /\ step'.out.edits # <<>>
             /\ ~step'.stale
             => (Len(step'.commands) = 1 /\ step'.commands[1].edits = step'.out.edits)]_vars

\* An on-type result was applied although the model's options are no longer those the
\* request was sent with.
AppliedAfterOptionsChangeWitness ==
    /\ step.name = "resolve"
    /\ step.commands # <<>>
    /\ step.req.options # options[model]


\* C18: an on-type result is applied only to the model that was attached when the trigger
\* character was typed: once the editor's model has been replaced, the resolving request
\* executes no command against the new model (with no model attached a command has no
\* target and changes nothing).
AppliedOnlyToTriggerModel ==
    /\ step.name = "resolve" /\ step.commands # <<>> /\ model # NoModel => step.req.model = model
    /\ step.name = "resolve" /\ step.req.model # model => step.pushed = 0 /\ ~step.changed


\* C19: applying one on-type result is a document change the watches of the other
\* pending requests observe: every pending request whose anchor is at or after a line the
\* applied command's notifications touch (so every one anchored on the line of an edit
\* made there) is invalidated by it and its watch released, and its own result is
\* discarded when it resolves; of two such requests at most one has its edits applied.
ApplyInvalidatesOtherRequests ==
    /\ step.name = "resolve" /\ step.commands # <<>> =>
          \A i \in 1..Len(reqs) :
              (\E e \in Range(CommandEvents(step.commands[1].edits)) :
                   Invalidates(e, reqs[i].line))
                => reqs[i].canceled /\ ~reqs[i].bound
    /\ step.name = "resolve" /\ step.req.canceled /\ step.out.kind # "error" =>
          /\ step.commands = <<>>
          /\ step.pushed = 0

\* The only change of the document so far was an applied on-type result; the request
\* resolving now, anchored on line 1 where that result's edit was made, is discarded.
SecondResultDiscardedWitness ==
    /\ step.name = "resolve"
    /\ undo = << OnTypeId >>
    /\ version[model] = 2
    /\ step.req.line = 1
    /\ step.req.canceled
    /\ step.out.kind = "edits" /\ step.out.edits # <<>>
    /\ step.commands = <<>>


\* C20: a newly constructed controller has no typing listener, even when format-on-type
\* is enabled and the attached model's first provider declares trigger characters; the
\* listeners change only in a configuration, model, model-mode or registry event (or in
\* dispose), and while there is none a typed character issues no request.
NoListenersBeforeFirstEvent ==
    /\ callOnModel = <<>>
    /\ [][/\ callOnModel' # callOnModel =>
                step'.name \in {"config", "model", "mode", "registry", "dispose"}
          /\ step'.name = "type" /\ callOnModel = <<>> =>
                (step'.issued = 0 /\ reqs' = reqs)]_vars

\* Everything is in place for listeners, but no event has fired since construction: a
\* declared trigger character was typed and issued nothing.
TypedBeforeFirstEventWitness ==
    /\ step.name = "type"
    /\ callOnDispose # {}
    /\ formatOnType
    /\ model # NoModel
    /\ ordered # <<>>
    /\ ordered[1].declared
    /\ step.ch \in Range(ordered[1].chars)
    /\ callOnModel = <<>>
    /\ step.issued = 0

====
